---- MODULE Spec2Model ----
(***************************************************************************)
(* Model of discount_app.py: Deal, DealSearcher (query building, the       *)
(* retailer x category task fan-out, the worker pool and the sequential    *)
(* fallback, the TTL cache, the two retailer extractors, the price parser, *)
(* the dedup merge).                                                       *)
(*                                                                         *)
(* Text is a sequence of one-character strings.  A price is an integer     *)
(* number of cents; a discount percentage is an integer number of          *)
(* hundredths of a percent (the code rounds it to two decimals).           *)
(***************************************************************************)
EXTENDS Integers, Sequences, FiniteSets, TLC

\* Optional values (Python's None or a value x) are <<>> or <<x>>.
NoValue == <<>>
Some(x) == <<x>>

(***************************************************************************)
(* Bounds of the model.                                                    *)
(***************************************************************************)
MaxTime == 2
MaxWorkers == 2
MaxBlocks == 2
MaxLimit == 2
MaxPrice == 33
MaxDeals == 3
MaxText == 5

(***************************************************************************)
(* Text helpers: str.lower(), str.strip(), the `in` substring test.        *)
(***************************************************************************)
UpperCase == <<"A","B","C","D","E","F","G","H","I","J","K","L","M",
               "N","O","P","Q","R","S","T","U","V","W","X","Y","Z">>
LowerCase == <<"a","b","c","d","e","f","g","h","i","j","k","l","m",
               "n","o","p","q","r","s","t","u","v","w","x","y","z">>

LowerChar(c) ==
    IF \E i \in 1..Len(UpperCase) : UpperCase[i] = c
    THEN LowerCase[CHOOSE i \in 1..Len(UpperCase) : UpperCase[i] = c]
    ELSE c

Lower(s) == [i \in 1..Len(s) |-> LowerChar(s[i])]

IsSpace(c) == c \in {" ", "\t", "\n"}

RECURSIVE LStrip(_)
LStrip(s) == IF s # <<>> /\ IsSpace(Head(s)) THEN LStrip(Tail(s)) ELSE s

RECURSIVE RStrip(_)
RStrip(s) ==
    IF s # <<>> /\ IsSpace(s[Len(s)]) THEN RStrip(SubSeq(s, 1, Len(s) - 1)) ELSE s

Strip(s) == RStrip(LStrip(s))

Contains(hay, needle) ==
    \E i \in 1..(Len(hay) - Len(needle) + 1) :
        SubSeq(hay, i, i + Len(needle) - 1) = needle

(***************************************************************************)
(* ProductCategory and CATEGORY_SEARCH_TERMS (two of the eleven members).  *)
(***************************************************************************)
ProductCategory == {"CPU", "GPU"}

CATEGORY_SEARCH_TERMS(category) ==
    IF category = "CPU"
    THEN <<"c","p","u"," ","p","r","o","c","e","s","s","o","r">>
    ELSE <<"g","r","a","p","h","i","c","s"," ","c","a","r","d">>

(***************************************************************************)
(* Deal.  url, description and timestamp are carried through unread by     *)
(* every operation modelled here and are left out of the record.           *)
(***************************************************************************)
FloorDiv(a, b) == a \div b

\* round(x, 2) of x = num / den * 100 (den > 0), in hundredths: nearest, ties to
\* even.  Python computes x in binary floating point; for whole-number prices
\* the result is this one, for fractional prices an exact tie may fall either way.
RoundHundredths(num, den) ==
    LET scaled == num * 10000
        q == FloorDiv(scaled, den)
        r == scaled - q * den
    IN  IF 2 * r < den THEN q
        ELSE IF 2 * r > den THEN q + 1
        ELSE IF q % 2 = 0 THEN q ELSE q + 1

CalculateDiscountTrunc(original_price, sale_price) ==
    IF original_price <= 0 THEN 0
    ELSE FloorDiv((original_price - sale_price) * 10000, original_price)

CalculateDiscount(original_price, sale_price) ==
    IF original_price <= 0 THEN 0
    ELSE RoundHundredths(original_price - sale_price, original_price)

Deal(product_name, category, original_price, sale_price, retailer) ==
    [product_name |-> product_name,
     category |-> category,
     original_price |-> original_price,
     sale_price |-> sale_price,
     retailer |-> retailer,
     discount_percentage |-> CalculateDiscount(original_price, sale_price)]

(***************************************************************************)
(* _parse_price: re.search(r"([0-9]+(?:,[0-9]{3})*(?:\.\d{2})?)", text),   *)
(* commas removed, as cents.                                               *)
(***************************************************************************)
Digits == <<"0","1","2","3","4","5","6","7","8","9">>
IsDigit(c) == \E i \in 1..10 : Digits[i] = c
DigitVal(c) == (CHOOSE i \in 1..10 : Digits[i] = c) - 1

IsDigitAt(text, i) == i >= 1 /\ i <= Len(text) /\ IsDigit(text[i])

\* end of the greedy [0-9]+ that starts at i (index of its last digit)
RECURSIVE DigitRunEnd(_, _)
DigitRunEnd(text, i) ==
    IF IsDigitAt(text, i + 1) THEN DigitRunEnd(text, i + 1) ELSE i

\* end of the greedy (?:,[0-9]{3})* that follows position j
RECURSIVE GroupsEnd(_, _)
GroupsEnd(text, j) ==
    IF /\ j + 4 <= Len(text)
       /\ text[j + 1] = ","
       /\ IsDigitAt(text, j + 2) /\ IsDigitAt(text, j + 3) /\ IsDigitAt(text, j + 4)
    THEN GroupsEnd(text, j + 4)
    ELSE j

\* value of the digits of text[i..j], commas skipped
RECURSIVE DigitsValue(_, _, _, _)
DigitsValue(text, i, j, acc) ==
    IF i > j THEN acc
    ELSE IF text[i] = "," THEN DigitsValue(text, i + 1, j, acc)
    ELSE DigitsValue(text, i + 1, j, acc * 10 + DigitVal(text[i]))

ParsePriceNoGroups(text) ==
    IF ~ \E i \in 1..Len(text) : IsDigit(text[i]) THEN NoValue
    ELSE LET start == CHOOSE i \in 1..Len(text) :
                         /\ IsDigit(text[i])
                         /\ \A k \in 1..(i - 1) : ~IsDigit(text[k])
             intEnd == DigitRunEnd(text, start)
             hasFrac == /\ intEnd + 3 <= Len(text)
                        /\ text[intEnd + 1] = "."
                        /\ IsDigitAt(text, intEnd + 2)
                        /\ IsDigitAt(text, intEnd + 3)
         IN  Some(DigitsValue(text, start, intEnd, 0) * 100
                  + (IF hasFrac
                     THEN DigitVal(text[intEnd + 2]) * 10 + DigitVal(text[intEnd + 3])
                     ELSE 0))

ParsePrice(text) ==
    IF text = <<>> THEN NoValue
    ELSE IF ~ \E i \in 1..Len(text) : IsDigit(text[i]) THEN NoValue
    ELSE LET start == CHOOSE i \in 1..Len(text) :
                         /\ IsDigit(text[i])
                         /\ \A k \in 1..(i - 1) : ~IsDigit(text[k])
             intEnd == GroupsEnd(text, DigitRunEnd(text, start))
             hasFrac == /\ intEnd + 3 <= Len(text)
                        /\ text[intEnd + 1] = "."
                        /\ IsDigitAt(text, intEnd + 2)
                        /\ IsDigitAt(text, intEnd + 3)
         IN  Some(DigitsValue(text, start, intEnd, 0) * 100
                  + (IF hasFrac
                     THEN DigitVal(text[intEnd + 2]) * 10 + DigitVal(text[intEnd + 3])
                     ELSE 0))

(***************************************************************************)
(* The retailer extractors.  A fetched page is the sequence of its listing *)
(* blocks (li.sku-item / div.item-cell); a block holds the text of its     *)
(* title, current-price and previous-price elements, each optional.        *)
(* A response is the page, a requests.RequestException, or an unexpected   *)
(* exception raised inside the scraper.                                    *)
(***************************************************************************)
Retailers == <<"Best Buy", "Newegg">>

SeePriceInCart == <<"s","e","e"," ","p","r","i","c","e"," ","i","n"," ","c","a","r","t">>

Block(title, price, was) == [title |-> title, price |-> price, was |-> was]

OriginalPriceAnyWas(prev_price, sale_price) ==
    IF prev_price # NoValue THEN prev_price[1] ELSE sale_price

\* original_price = sale_price; if prev_price and prev_price > sale_price:
\* original_price = prev_price  (prev_price: None or the parsed previous price)
OriginalPrice(prev_price, sale_price) ==
    IF prev_price # NoValue /\ prev_price[1] # 0 /\ prev_price[1] > sale_price
    THEN prev_price[1]
    ELSE sale_price

\* the for loop of _scrape_bestbuy from item i on: the deals and the blocks scanned
RECURSIVE BestbuyLoop(_, _, _, _, _)
BestbuyLoop(items, i, deals, category, limit) ==
    IF i > Len(items) THEN [deals |-> deals, scanned |-> Len(items)]
    ELSE LET item == items[i]
         IN  IF item.title = NoValue \/ item.price = NoValue
             THEN BestbuyLoop(items, i + 1, deals, category, limit)
             ELSE LET sale_price == ParsePrice(Strip(item.price[1]))
                  IN  IF sale_price = NoValue
                      THEN BestbuyLoop(items, i + 1, deals, category, limit)
                      ELSE LET prev_price == IF item.was # NoValue
                                             THEN ParsePrice(Strip(item.was[1]))
                                             ELSE NoValue
                               original_price == OriginalPrice(prev_price, sale_price[1])
                               appended ==
                                   Append(deals, Deal(Strip(item.title[1]), category,
                                                      original_price, sale_price[1],
                                                      "Best Buy"))
                           IN  IF Len(appended) >= limit
                               THEN [deals |-> appended, scanned |-> i]
                               ELSE BestbuyLoop(items, i + 1, appended, category, limit)

\* the for loop of _scrape_newegg from item i on
RECURSIVE NeweggLoop(_, _, _, _, _)
NeweggLoop(items, i, deals, category, limit) ==
    IF i > Len(items) THEN [deals |-> deals, scanned |-> Len(items)]
    ELSE LET item == items[i]
         IN  IF item.title = NoValue \/ item.price = NoValue
             THEN NeweggLoop(items, i + 1, deals, category, limit)
             ELSE LET price_text == Strip(item.price[1])
                      sale_price == ParsePrice(price_text)
                  IN  IF Contains(Lower(price_text), SeePriceInCart)
                      THEN NeweggLoop(items, i + 1, deals, category, limit)
                      ELSE IF sale_price = NoValue
                      THEN NeweggLoop(items, i + 1, deals, category, limit)
                      ELSE LET was_price == IF item.was # NoValue
                                            THEN ParsePrice(Strip(item.was[1]))
                                            ELSE NoValue
                               original_price == OriginalPrice(was_price, sale_price[1])
                               appended ==
                                   Append(deals, Deal(Strip(item.title[1]), category,
                                                      original_price, sale_price[1],
                                                      "Newegg"))
                           IN  IF Len(appended) >= limit
                               THEN [deals |-> appended, scanned |-> i]
                               ELSE NeweggLoop(items, i + 1, appended, category, limit)

FetchError == [kind |-> "fetch_error", items |-> <<>>]
Fault == [kind |-> "fault", items |-> <<>>]
Page(items) == [kind |-> "ok", items |-> items]

\* a scraper call: it raises, or returns its deals
Raised == [raised |-> TRUE, deals |-> <<>>, scanned |-> 0]
Returned(deals, scanned) == [raised |-> FALSE, deals |-> deals, scanned |-> scanned]

ScrapeBestbuyFetchRaises(response, category, limit) ==
    IF response.kind \in {"fault", "fetch_error"} THEN Raised
    ELSE LET r == BestbuyLoop(response.items, 1, <<>>, category, limit)
         IN  Returned(r.deals, r.scanned)

ScrapeBestbuy(response, category, limit) ==
    IF response.kind = "fault" THEN Raised
    ELSE IF response.kind = "fetch_error" THEN Returned(<<>>, 0)
    ELSE LET r == BestbuyLoop(response.items, 1, <<>>, category, limit)
         IN  Returned(r.deals, r.scanned)

ScrapeNewegg(response, category, limit) ==
    IF response.kind = "fault" THEN Raised
    ELSE IF response.kind = "fetch_error" THEN Returned(<<>>, 0)
    ELSE LET r == NeweggLoop(response.items, 1, <<>>, category, limit)
         IN  Returned(r.deals, r.scanned)

\* self.retailer_scrapers[retailer](query, category, limit)
Scraper(retailer, response, category, limit) ==
    IF retailer = "Best Buy"
    THEN ScrapeBestbuy(response, category, limit)
    ELSE ScrapeNewegg(response, category, limit)

(***************************************************************************)
(* The cache: a dict from (retailer, normalized query, category) to        *)
(* (timestamp, deals).                                                     *)
(***************************************************************************)
CacheKeyNoCategory(retailer, query, category) == <<retailer, Lower(Strip(query)), "">>

CacheKeyRawQuery(retailer, query, category) == <<retailer, query, category>>

CacheKey(retailer, query, category) == <<retailer, Lower(Strip(query)), category>>

\* self._cache.get(key)
CacheRead(c, key) == IF key \in DOMAIN c THEN Some(c[key]) ELSE NoValue

CacheExpiredAtTtl(entry, t, ttl) == t - entry.timestamp >= ttl

CacheExpired(entry, t, ttl) == t - entry.timestamp > ttl

\* self._cache.pop(key, None)
CachePop(c, key) == [k \in (DOMAIN c) \ {key} |-> c[k]]

CacheGetResultAlwaysMiss(cached, t, ttl) == NoValue

CacheGetResultEmptyMisses(cached, t, ttl) ==
    IF cached = NoValue THEN NoValue
    ELSE IF CacheExpired(cached[1], t, ttl) \/ cached[1].deals = <<>> THEN NoValue
    ELSE Some(cached[1].deals)

\* the value _cache_get returns once `cached` is read, at time t
CacheGetResult(cached, t, ttl) ==
    IF cached = NoValue THEN NoValue
    ELSE IF CacheExpired(cached[1], t, ttl) THEN NoValue
    ELSE Some(cached[1].deals)

CacheGetEffectTouch(c, key, cached, t, ttl) ==
    IF cached = NoValue THEN c
    ELSE IF CacheExpired(cached[1], t, ttl) THEN CachePop(c, key)
    ELSE [c EXCEPT ![key].timestamp = t]

\* the cache _cache_get leaves once `cached` is read, at time t
CacheGetEffect(c, key, cached, t, ttl) ==
    IF cached # NoValue /\ CacheExpired(cached[1], t, ttl) THEN CachePop(c, key) ELSE c

CacheSet(c, key, deals, t) ==
    [k \in (DOMAIN c) \cup {key} |->
        IF k = key THEN [timestamp |-> t, deals |-> deals] ELSE c[k]]

(***************************************************************************)
(* Query building and the task list of _fetch_deals_from_retailers.        *)
(***************************************************************************)
NormalizedTerm(search_term) ==
    IF search_term # NoValue /\ search_term[1] # <<>> THEN Strip(search_term[1]) ELSE <<>>

BuildQueryAlwaysAppends(category, search_term) ==
    LET normalized_term == NormalizedTerm(search_term)
        category_term == CATEGORY_SEARCH_TERMS(category)
    IN  IF normalized_term # <<>>
        THEN Strip(normalized_term \o <<" ">> \o category_term)
        ELSE category_term

BuildQuery(category, search_term) ==
    LET normalized_term == NormalizedTerm(search_term)
        category_term == CATEGORY_SEARCH_TERMS(category)
    IN  IF normalized_term # <<>>
        THEN IF Contains(Lower(normalized_term), Lower(category_term))
             THEN normalized_term
             ELSE Strip(normalized_term \o <<" ">> \o category_term)
        ELSE category_term

RECURSIVE BuildTasksNeweggFirst(_, _)
BuildTasksNeweggFirst(categories, search_term) ==
    IF categories = <<>> THEN <<>>
    ELSE LET category == Head(categories)
             query == BuildQuery(category, search_term)
         IN  [r \in 1..Len(Retailers) |->
                 [retailer |-> Retailers[Len(Retailers) + 1 - r], query |-> query,
                  category |-> category]]
             \o BuildTasksNeweggFirst(Tail(categories), search_term)

RECURSIVE BuildTasks(_, _)
BuildTasks(categories, search_term) ==
    IF categories = <<>> THEN <<>>
    ELSE LET category == Head(categories)
             query == BuildQuery(category, search_term)
         IN  [r \in 1..Len(Retailers) |->
                 [retailer |-> Retailers[r], query |-> query, category |-> category]]
             \o BuildTasks(Tail(categories), search_term)

(***************************************************************************)
(* _merge_deals: first deal of a (retailer, lowercased name) key wins.     *)
(***************************************************************************)
DedupKeyCaseSensitive(deal) == <<deal.retailer, deal.product_name>>

DedupKeyNameOnly(deal) == <<"", Lower(deal.product_name)>>

DedupKey(deal) == <<deal.retailer, Lower(deal.product_name)>>

RECURSIVE MergeDeals(_, _, _)
MergeDeals(retailer_deals, deals, seen) ==
    IF retailer_deals = <<>> THEN [deals |-> deals, seen |-> seen]
    ELSE LET deal == Head(retailer_deals)
             key == DedupKey(deal)
         IN  IF key \in seen
             THEN MergeDeals(Tail(retailer_deals), deals, seen)
             ELSE MergeDeals(Tail(retailer_deals), Append(deals, deal), seen \cup {key})

Min(a, b) == IF a <= b THEN a ELSE b

(***************************************************************************)
(* The filters and sorts over self.deals.                                  *)
(***************************************************************************)
FilterDealsByCategory(all_deals, category) ==
    SelectSeq(all_deals, LAMBDA deal : deal.category = category)

FilterDealsByMinDiscountStrict(all_deals, min_discount) ==
    SelectSeq(all_deals, LAMBDA deal : deal.discount_percentage > min_discount)

FilterDealsByMinDiscount(all_deals, min_discount) ==
    SelectSeq(all_deals, LAMBDA deal : deal.discount_percentage >= min_discount)

FilterDealsByMaxPrice(all_deals, max_price) ==
    SelectSeq(all_deals, LAMBDA deal : deal.sale_price <= max_price)

\* sorted(items, key=..., reverse=reverse) with keys[i] the key of items[i]:
\* the sort is stable, with reverse too
SortedBy(items, keys, reverse) ==
    LET Before(i, j) == IF reverse THEN keys[i] > keys[j] ELSE keys[i] < keys[j]
        Rank(i) == 1 + Cardinality({j \in DOMAIN items :
                                       Before(j, i) \/ (keys[j] = keys[i] /\ j < i)})
    IN  [p \in DOMAIN items |-> items[CHOOSE i \in DOMAIN items : Rank(i) = p]]

SortDealsByDiscountAscending(all_deals, reverse) ==
    SortedBy(all_deals, [i \in DOMAIN all_deals |-> all_deals[i].discount_percentage], FALSE)

SortDealsByDiscount(all_deals, reverse) ==
    SortedBy(all_deals, [i \in DOMAIN all_deals |-> all_deals[i].discount_percentage],
             reverse)

SortDealsByPrice(all_deals, reverse) ==
    SortedBy(all_deals, [i \in DOMAIN all_deals |-> all_deals[i].sale_price], reverse)

\* the default of the reverse parameter
SortByDiscountDefault == TRUE
SortByPriceDefault == FALSE

(***************************************************************************)
(* State.                                                                  *)
(*   max_workers .. cache_ttl_seconds, cache (self._cache), self_deals     *)
(*   (self.deals): the DealSearcher's fields; now: time.time().            *)
(*   The search starts at time MaxTime, with the cache empty or holding    *)
(*   an entry that is fresh or expired; within a search the clock moves    *)
(*   with time.sleep.                                                      *)
(*   phase, mode, tasks, futures, deals, seen: one search_deals invocation *)
(*   (_fetch_deals_from_retailers' locals; mode is the branch of line 213; *)
(*   futures[i] is the run of _scrape_with_cache for tasks[i], with the    *)
(*   kind of response its scraper met); sleeps counts the time.sleep calls.*)
(*   search_categories is its categories argument.                         *)
(*   cache_op, extraction, constructed, called: the last direct call of    *)
(*   the cache, of an extractor, of the Deal constructor, of a helper      *)
(*   (filter, sort, query building, price parser).                         *)
(***************************************************************************)
VARIABLES max_workers, request_delay, max_results_per_retailer, cache_ttl_seconds,
          cache, now, self_deals, phase, mode, search_categories, tasks, futures,
          deals, seen, sleeps, cache_op, extraction, constructed, called

config == <<max_workers, request_delay, max_results_per_retailer, cache_ttl_seconds>>
invocation == <<phase, mode, search_categories, tasks, futures, deals, seen, sleeps,
                self_deals>>
direct == <<cache_op, extraction, constructed, called>>
vars == <<config, cache, now, invocation, direct>>

EmptyCache == [k \in {} |-> 0]
NoOp == [kind |-> "none"]

(***************************************************************************)
(* Inputs of the search model.                                             *)
(***************************************************************************)
PageAA ==
    <<Block(Some(<<"a">>), Some(<<"$","5">>), NoValue),
      Block(Some(<<"A">>), Some(<<"$","4">>), Some(<<"$","8">>))>>
PageB ==
    <<Block(Some(<<"b">>), Some(<<"$","4">>), NoValue)>>

Responses == {Fault, FetchError, Page(PageAA), Page(PageB)}

\* the (categories, search_term) arguments of search_deals
TermCpu == Some(<<"C","P","U"," ","P","r","o","c","e","s","s","o","r"," ">>)
SearchInputs ==
    {<<<<>>, NoValue>>,
     <<<<"GPU">>, NoValue>>,
     <<<<"CPU">>, TermCpu>>,
     <<<<"CPU", "GPU">>, NoValue>>,
     <<<<"CPU", "CPU">>, TermCpu>>}

\* a cache handed to the constructor: empty, or holding what an earlier search
\* stored, just now or long enough ago to have expired
StoredDeals == <<Deal(<<"c">>, "CPU", 900, 600, "Best Buy")>>
InitialCaches(t, ttl) ==
    {EmptyCache} \cup
    {CacheSet(EmptyCache, CacheKey("Best Buy", CATEGORY_SEARCH_TERMS("CPU"), "CPU"),
              StoredDeals, stored) : stored \in {t, t - ttl - 1}}

IdleInvocation ==
    /\ phase = "idle"
    /\ mode = "none"
    /\ search_categories = <<>>
    /\ tasks = <<>>
    /\ futures = <<>>
    /\ deals = <<>>
    /\ seen = {}
    /\ sleeps = 0
    /\ self_deals = <<>>

IdleDirect ==
    /\ cache_op = NoOp
    /\ extraction = NoOp
    /\ constructed = NoOp
    /\ called = NoOp

Init ==
    /\ max_workers \in -1..MaxWorkers
    /\ request_delay \in {0, 1}
    /\ max_results_per_retailer \in 1..MaxLimit
    /\ cache_ttl_seconds = 1
    /\ now = MaxTime
    /\ cache \in InitialCaches(now, cache_ttl_seconds)
    /\ IdleInvocation
    /\ IdleDirect

(***************************************************************************)
(* search_deals / _fetch_deals_from_retailers.                             *)
(***************************************************************************)
\* line 213: the worker pool is used
UsePool(t) == t # <<>> /\ max_workers # 0 /\ Len(t) > 1

PoolSizeTaskCount(t) == Len(t)

\* line 214
PoolSize(t) == Min(max_workers, Len(t))

\* line 284, computed once per task
TaskKey(i) == futures[i].key

Running == {i \in 1..Len(futures) : futures[i].pc \in {"check", "scrape"}}

NewFuture(task) ==
    [pc |-> "queued", key |-> CacheKey(task.retailer, task.query, task.category),
     cached |-> NoValue, result |-> <<>>, outcome |-> "none"]

\* search_deals is called: the tasks are built and the mode chosen;
\* ThreadPoolExecutor(max_workers <= 0) raises ValueError
Search(categories, search_term) ==
    /\ phase = "idle"
    /\ LET t == BuildTasks(categories, search_term)
       IN  /\ search_categories' = categories
           /\ tasks' = t
           /\ futures' = [i \in 1..Len(t) |-> NewFuture(t[i])]
           /\ mode' = IF ~UsePool(t) THEN "sequential"
                      ELSE IF PoolSize(t) <= 0 THEN "none" ELSE "pool"
           /\ phase' = IF UsePool(t) /\ PoolSize(t) <= 0 THEN "raised" ELSE "running"
    /\ deals' = <<>>
    /\ seen' = {}
    /\ UNCHANGED <<config, cache, now, sleeps, self_deals, direct>>

\* _scrape_with_cache begins: cached = self._cache.get(key)
Lookup(i) ==
    futures' = [futures EXCEPT ![i].pc = "check",
                               ![i].cached = CacheRead(cache, TaskKey(i))]

\* a pool worker takes the next submitted task
PoolStart(i) ==
    /\ phase = "running" /\ mode = "pool"
    /\ futures[i].pc = "queued"
    /\ \A j \in 1..(i - 1) : futures[j].pc # "queued"
    /\ Cardinality(Running) < PoolSize(tasks)
    /\ Lookup(i)
    /\ UNCHANGED <<config, cache, now, phase, mode, tasks, search_categories, deals, seen, sleeps,
                  self_deals, direct>>

\* the sequential loop calls _scrape_with_cache for the next task
SeqStart(i) ==
    /\ phase = "running" /\ mode = "sequential"
    /\ futures[i].pc = "queued"
    /\ \A j \in 1..(i - 1) : futures[j].pc = "merged"
    /\ Lookup(i)
    /\ UNCHANGED <<config, cache, now, phase, mode, tasks, search_categories, deals, seen, sleeps,
                  self_deals, direct>>

\* the rest of _cache_get, and the return of a hit
Check(i) ==
    /\ phase = "running"
    /\ futures[i].pc = "check"
    /\ LET got == CacheGetResult(futures[i].cached, now, cache_ttl_seconds)
       IN  /\ cache' = CacheGetEffect(cache, TaskKey(i), futures[i].cached, now,
                                      cache_ttl_seconds)
           /\ futures' = IF got # NoValue
                         THEN [futures EXCEPT ![i].pc = "done",
                                              ![i].cached = NoValue,
                                              ![i].result = got[1],
                                              ![i].outcome = "hit"]
                         ELSE [futures EXCEPT ![i].pc = "scrape",
                                              ![i].cached = NoValue]
    /\ UNCHANGED <<config, now, phase, mode, tasks, search_categories, deals, seen, sleeps,
                  self_deals, direct>>

\* the scraper call and _cache_set; an exception ends the future, and in the
\* sequential loop leaves search_deals
Scrape(i, response) ==
    /\ phase = "running"
    /\ futures[i].pc = "scrape"
    /\ LET r == Scraper(tasks[i].retailer, response, tasks[i].category,
                        max_results_per_retailer)
       IN  IF r.raised
           THEN /\ futures' = [futures EXCEPT ![i].pc = "failed",
                                              ![i].outcome = response.kind]
                /\ phase' = IF mode = "sequential" THEN "raised" ELSE phase
                /\ cache' = cache
           ELSE /\ futures' = [futures EXCEPT ![i].pc = "done",
                                              ![i].result = r.deals,
                                              ![i].outcome = response.kind]
                /\ phase' = phase
                /\ cache' = CacheSet(cache, TaskKey(i), r.deals, now)
    /\ UNCHANGED <<config, now, mode, tasks, search_categories, deals, seen, sleeps,
                  self_deals, direct>>

Merge(i) ==
    LET m == MergeDeals(futures[i].result, deals, seen)
    IN  /\ deals' = m.deals
        /\ seen' = m.seen
        /\ futures' = [futures EXCEPT ![i].pc = "merged"]

\* as_completed yields a future that returned
PoolMerge(i) ==
    /\ phase = "running" /\ mode = "pool"
    /\ futures[i].pc = "done"
    /\ Merge(i)
    /\ UNCHANGED <<config, cache, now, phase, mode, tasks, search_categories, sleeps,
                  self_deals, direct>>

\* the sequential loop merges and sleeps
SeqMerge(i) ==
    /\ phase = "running" /\ mode = "sequential"
    /\ futures[i].pc = "done"
    /\ Merge(i)
    /\ IF request_delay # 0
       THEN now' = now + request_delay /\ sleeps' = sleeps + 1
       ELSE now' = now /\ sleeps' = sleeps
    /\ UNCHANGED <<config, cache, phase, mode, tasks, search_categories, self_deals, direct>>

ReturnExtends ==
    /\ phase = "running"
    /\ \A i \in 1..Len(futures) : futures[i].pc \in {"merged", "failed"}
    /\ self_deals' = self_deals \o deals
    /\ phase' = "returned"
    /\ UNCHANGED <<config, cache, now, mode, tasks, search_categories, futures, deals, seen, sleeps,
                  direct>>

\* every future is consumed (one that raised is logged and skipped):
\* self.deals = deals; return
Return ==
    /\ phase = "running"
    /\ \A i \in 1..Len(futures) : futures[i].pc \in {"merged", "failed"}
    /\ self_deals' = deals
    /\ phase' = "returned"
    /\ UNCHANGED <<config, cache, now, mode, tasks, search_categories, futures, deals, seen, sleeps,
                  direct>>

Next ==
    \/ \E input \in SearchInputs : Search(input[1], input[2])
    \/ \E i \in DOMAIN futures : PoolStart(i)
    \/ \E i \in DOMAIN futures : SeqStart(i)
    \/ \E i \in DOMAIN futures : Check(i)
    \/ \E i \in DOMAIN futures, response \in Responses : Scrape(i, response)
    \/ \E i \in DOMAIN futures : PoolMerge(i)
    \/ \E i \in DOMAIN futures : SeqMerge(i)
    \/ Return

Spec == Init /\ [][Next]_vars

(***************************************************************************)
(* Direct calls of _cache_get / _cache_set, with the clock ticking.        *)
(***************************************************************************)
MAX_RESULTS_PER_RETAILER == 5
DEFAULT_MAX_WORKERS == 6
CACHE_TTL_SECONDS == 300

CallKeys ==
    {CacheKey("Best Buy", CATEGORY_SEARCH_TERMS("CPU"), "CPU"),
     CacheKey("Newegg", CATEGORY_SEARCH_TERMS("GPU"), "GPU")}

CallDeals == {<<>>, StoredDeals, <<Deal(<<"a">>, "GPU", 500, 500, "Newegg")>>}

InitCache ==
    /\ max_workers = DEFAULT_MAX_WORKERS
    /\ request_delay = 0
    /\ max_results_per_retailer = MAX_RESULTS_PER_RETAILER
    /\ cache_ttl_seconds \in 0..(MaxTime - 1)
    /\ cache = EmptyCache
    /\ now = 0
    /\ IdleInvocation
    /\ IdleDirect

CacheGetCall(key) ==
    LET cached == CacheRead(cache, key)
    IN  /\ cache' = CacheGetEffect(cache, key, cached, now, cache_ttl_seconds)
        /\ cache_op' = [kind |-> "get", key |-> key, before |-> cached, at |-> now,
                        deals |-> <<>>,
                        result |-> CacheGetResult(cached, now, cache_ttl_seconds)]
        /\ UNCHANGED <<config, now, invocation, extraction, constructed, called>>

CacheSetCall(key, new_deals) ==
    /\ cache' = CacheSet(cache, key, new_deals, now)
    /\ cache_op' = [kind |-> "set", key |-> key, before |-> CacheRead(cache, key),
                    at |-> now, deals |-> new_deals, result |-> NoValue]
    /\ UNCHANGED <<config, now, invocation, extraction, constructed, called>>

Tick ==
    /\ now < MaxTime
    /\ now' = now + 1
    /\ UNCHANGED <<config, cache, invocation, direct>>

NextCache ==
    \/ \E key \in CallKeys : CacheGetCall(key)
    \/ \E key \in CallKeys, new_deals \in CallDeals : CacheSetCall(key, new_deals)
    \/ Tick

SpecCache == InitCache /\ [][NextCache]_vars

(***************************************************************************)
(* A further search_deals call on a searcher whose previous search         *)
(* returned StoredDeals, for two categories and a term that holds the      *)
(* phrase of both, so that all four tasks have one query.                  *)
(***************************************************************************)
TermBoth ==
    Some(<<"c","p","u"," ","p","r","o","c","e","s","s","o","r"," ",
           "g","r","a","p","h","i","c","s"," ","c","a","r","d">>)

AgainInputs == {<<<<"CPU", "GPU">>, TermBoth>>}

InitAgain ==
    /\ max_workers \in {0, MaxWorkers}
    /\ request_delay = 0
    /\ max_results_per_retailer = MAX_RESULTS_PER_RETAILER
    /\ cache_ttl_seconds = CACHE_TTL_SECONDS
    /\ cache = EmptyCache
    /\ now = 0
    /\ phase = "idle"
    /\ mode = "none"
    /\ search_categories = <<>>
    /\ tasks = <<>>
    /\ futures = <<>>
    /\ deals = <<>>
    /\ seen = {}
    /\ sleeps = 0
    /\ self_deals = StoredDeals
    /\ IdleDirect

NextAgain ==
    \/ \E input \in AgainInputs : Search(input[1], input[2])
    \/ \E i \in DOMAIN futures : PoolStart(i)
    \/ \E i \in DOMAIN futures : SeqStart(i)
    \/ \E i \in DOMAIN futures : Check(i)
    \/ \E i \in DOMAIN futures, response \in Responses : Scrape(i, response)
    \/ \E i \in DOMAIN futures : PoolMerge(i)
    \/ \E i \in DOMAIN futures : SeqMerge(i)
    \/ Return

SpecAgain == InitAgain /\ [][NextAgain]_vars

(***************************************************************************)
(* Direct calls of the extractors on every page of at most MaxBlocks       *)
(* blocks, and of the Deal constructor on every pair of prices.            *)
(***************************************************************************)
ListingBlocks ==
    {Block(Some(<<"a">>), Some(<<"$","5">>), NoValue),
     Block(Some(<<" ","A">>), Some(<<"$","4",".","5","0">>), Some(<<"$","8">>)),
     Block(Some(<<"b">>), Some(<<"$","4">>), Some(<<"$","3">>)),
     Block(Some(<<"d">>), Some(<<"$","4">>), Some(<<"$","4">>)),
     Block(Some(<<"e">>), Some(<<"$","6">>), Some(<<"N","/","A">>)),
     Block(Some(<<"f">>), Some(<<"$","0">>), Some(<<"$","8">>)),
     Block(Some(<<"b">>), NoValue, Some(<<"$","8">>)),
     Block(NoValue, Some(<<"$","5">>), NoValue),
     Block(Some(<<"c">>), Some(<<"C","a","l","l">>), NoValue),
     Block(Some(<<"c">>),
           Some(<<"S","e","e"," ","p","r","i","c","e"," ","i","n"," ","c","a","r","t",
                  " ","$","9">>),
           NoValue)}

RECURSIVE PagesOfLength(_)
PagesOfLength(n) ==
    IF n = 0 THEN {<<>>}
    ELSE {Append(p, b) : p \in PagesOfLength(n - 1), b \in ListingBlocks}

Pages == UNION {PagesOfLength(n) : n \in 0..MaxBlocks}

InitDefault ==
    /\ max_workers = DEFAULT_MAX_WORKERS
    /\ request_delay = 0
    /\ max_results_per_retailer = MAX_RESULTS_PER_RETAILER
    /\ cache_ttl_seconds = CACHE_TTL_SECONDS
    /\ cache = EmptyCache
    /\ now = 0
    /\ IdleInvocation
    /\ IdleDirect

\* scraper(query, category, limit) on a fetched page
ExtractCall(retailer, items, category, limit) ==
    LET r == Scraper(retailer, Page(items), category, limit)
    IN  /\ extraction = NoOp
        /\ extraction' = [kind |-> "extract", retailer |-> retailer, items |-> items,
                          category |-> category, limit |-> limit,
                          deals |-> r.deals, scanned |-> r.scanned]
        /\ UNCHANGED <<config, cache, now, invocation, cache_op, constructed, called>>

NextExtract ==
    \E r \in 1..Len(Retailers), items \in Pages, category \in ProductCategory,
       limit \in -1..MaxLimit :
        ExtractCall(Retailers[r], items, category, limit)

SpecExtract == InitDefault /\ [][NextExtract]_vars

\* Deal(product_name, category, original_price, sale_price, retailer)
ConstructCall(original_price, sale_price) ==
    /\ constructed = NoOp
    /\ constructed' = [kind |-> "deal", original_price |-> original_price,
                       sale_price |-> sale_price,
                       deal |-> Deal(<<"a">>, "CPU", original_price, sale_price,
                                     "Best Buy")]
    /\ UNCHANGED <<config, cache, now, invocation, cache_op, extraction, called>>

NextDeal ==
    \E original_price \in -2..MaxPrice, sale_price \in -2..MaxPrice :
        ConstructCall(original_price, sale_price)

SpecDeal == InitDefault /\ [][NextDeal]_vars

(***************************************************************************)
(* Direct calls of the filters and sorts on a searcher whose last search   *)
(* returned self.deals: at most MaxDeals deals, no dedup key twice.        *)
(***************************************************************************)
HelperDeals ==
    {Deal(<<"a">>, "CPU", 1000, 800, "Best Buy"),
     Deal(<<"b">>, "GPU", 800, 800, "Best Buy"),
     Deal(<<"a">>, "GPU", 500, 400, "Newegg"),
     Deal(<<"c">>, "CPU", 900, 600, "Newegg")}

RECURSIVE ResultSetsOfLength(_)
ResultSetsOfLength(n) ==
    IF n = 0 THEN {<<>>}
    ELSE {Append(r, d) : r \in ResultSetsOfLength(n - 1), d \in HelperDeals}

ResultSets ==
    {r \in UNION {ResultSetsOfLength(n) : n \in 0..MaxDeals} :
        \A i, j \in DOMAIN r : i # j => DedupKey(r[i]) # DedupKey(r[j])}

\* the min_discount and max_price arguments: at, just below and just above a deal's
Discounts == {d.discount_percentage + k : d \in HelperDeals, k \in {-1, 0, 1}}
Prices == {d.sale_price + k : d \in HelperDeals, k \in {-1, 0, 1}}

InitResult ==
    /\ max_workers = DEFAULT_MAX_WORKERS
    /\ request_delay = 0
    /\ max_results_per_retailer = MAX_RESULTS_PER_RETAILER
    /\ cache_ttl_seconds = CACHE_TTL_SECONDS
    /\ cache = EmptyCache
    /\ now = 0
    /\ phase = "returned"
    /\ mode = "none"
    /\ search_categories = <<>>
    /\ tasks = <<>>
    /\ futures = <<>>
    /\ self_deals \in ResultSets
    /\ deals = self_deals
    /\ seen = {DedupKey(self_deals[i]) : i \in DOMAIN self_deals}
    /\ sleeps = 0
    /\ IdleDirect

HelperCall(kind, arg, result) ==
    /\ called = NoOp
    /\ called' = [kind |-> kind, arg |-> arg, result |-> result]
    /\ UNCHANGED <<config, cache, now, invocation, cache_op, extraction, constructed>>

FilterByCategoryCall(category) ==
    HelperCall("filter_deals_by_category", category,
               FilterDealsByCategory(self_deals, category))

FilterByMinDiscountCall(min_discount) ==
    HelperCall("filter_deals_by_min_discount", min_discount,
               FilterDealsByMinDiscount(self_deals, min_discount))

FilterByMaxPriceCall(max_price) ==
    HelperCall("filter_deals_by_max_price", max_price,
               FilterDealsByMaxPrice(self_deals, max_price))

\* reverse: NoValue when the argument is left out
SortByDiscountCall(reverse) ==
    HelperCall("sort_deals_by_discount", reverse,
               SortDealsByDiscount(self_deals, IF reverse = NoValue
                                               THEN SortByDiscountDefault
                                               ELSE reverse[1]))

SortByPriceCall(reverse) ==
    HelperCall("sort_deals_by_price", reverse,
               SortDealsByPrice(self_deals, IF reverse = NoValue
                                            THEN SortByPriceDefault
                                            ELSE reverse[1]))

NextHelpers ==
    \/ \E category \in ProductCategory : FilterByCategoryCall(category)
    \/ \E min_discount \in Discounts : FilterByMinDiscountCall(min_discount)
    \/ \E max_price \in Prices : FilterByMaxPriceCall(max_price)
    \/ \E reverse \in {NoValue, Some(TRUE), Some(FALSE)} : SortByDiscountCall(reverse)
    \/ \E reverse \in {NoValue, Some(TRUE), Some(FALSE)} : SortByPriceCall(reverse)

SpecHelpers == InitResult /\ [][NextHelpers]_vars

(***************************************************************************)
(* Direct calls of the query building of _fetch_deals_from_retailers, for  *)
(* one category and a search term: None, or a text with or without the     *)
(* category's phrase, in either case, with whitespace around it.           *)
(***************************************************************************)
TermCores ==
    {<<>>,
     <<"r","t","x">>,
     <<"c","p","u">>,
     <<"C","P","U"," ","P","r","o","c","e","s","s","o","r">>,
     <<"c","p","u"," ","p","r","o","c","e","s","s","o","r">>,
     <<"a","m","d"," ","c","p","u"," ","P","R","O","C","E","S","S","O","R"," ","x">>,
     <<"c","p","u"," "," ","p","r","o","c","e","s","s","o","r">>,
     <<"G","r","a","p","h","i","c","s"," ","C","a","r","d">>,
     <<"g","r","a","p","h","i","c","s"," ","c","a","r","d","s">>,
     <<"g","r","a","p","h","i","c","s">>}

SearchTerms ==
    {NoValue} \cup
    {Some(before \o core \o after) :
        before \in {<<>>, <<" ">>}, core \in TermCores,
        after \in {<<>>, <<" ">>, <<"\n">>}}

BuildQueryCall(category, search_term) ==
    HelperCall("build_query", [category |-> category, search_term |-> search_term],
               BuildQuery(category, search_term))

NextQuery ==
    \E category \in ProductCategory, search_term \in SearchTerms :
        BuildQueryCall(category, search_term)

SpecQuery == InitDefault /\ [][NextQuery]_vars

(***************************************************************************)
(* Direct calls of _parse_price on every text of at most MaxText           *)
(* characters over a small alphabet, and on some longer price texts.       *)
(***************************************************************************)
TextAlphabet == {"$", "1", ",", "."}

RECURSIVE TextsOfLength(_)
TextsOfLength(n) ==
    IF n = 0 THEN {<<>>}
    ELSE {Append(t, c) : t \in TextsOfLength(n - 1), c \in TextAlphabet}

PriceTexts ==
    UNION {TextsOfLength(n) : n \in 0..MaxText} \cup
    {<<"$","1",",","2","9","9",".","9","9">>,
     <<"4","9","9">>,
     <<"C","a","l","l">>,
     <<"$","1",",","2","9","9",".","9">>,
     <<"1",",","2","3","4","5">>,
     <<"1","2",",","3","4">>,
     <<"$","1",",","2","9","9",",","0","0","0",".","5","0"," ","e","a">>,
     <<"1",".","9","9","9">>,
     <<"2"," ","f","o","r"," ","$","3",".","5","0">>,
     <<"W","a","s",":"," ","$","0","8","0">>}

ParsePriceCall(text) ==
    HelperCall("parse_price", text, ParsePrice(text))

NextParse ==
    \E text \in PriceTexts : ParsePriceCall(text)

SpecParse == InitDefault /\ [][NextParse]_vars

(***************************************************************************)
(* Direct calls of _cache_set and _cache_get under the key of a task       *)
(* (retailer, query, category), the query as any caller may write it; a    *)
(* get is recorded with the set made just before it, if any.               *)
(***************************************************************************)
KeyTask(retailer, query, category) ==
    [retailer |-> retailer, query |-> query, category |-> category]

KeyTasks ==
    {KeyTask("Best Buy", <<"c","p","u"," ","p","r","o","c","e","s","s","o","r">>, "CPU"),
     KeyTask("Best Buy", <<" ","C","P","U"," ","P","r","o","c","e","s","s","o","r","\n">>,
             "CPU"),
     KeyTask("Newegg", <<"C","p","u"," ","P","r","o","c","e","s","s","o","r"," ">>, "CPU"),
     KeyTask("Best Buy", <<"c","p","u"," ","p","r","o","c","e","s","s","o","r"," ">>, "GPU"),
     KeyTask("Best Buy", <<"c","p","u">>, "CPU")}

KeyDeals == {StoredDeals, <<Deal(<<"a">>, "GPU", 500, 500, "Newegg")>>}

TaskCacheSetCall(task, new_deals) ==
    /\ cache' = CacheSet(cache, CacheKey(task.retailer, task.query, task.category),
                         new_deals, now)
    /\ called' = [kind |-> "cache_set", arg |-> [task |-> task, deals |-> new_deals],
                  result |-> NoValue]
    /\ UNCHANGED <<config, now, invocation, cache_op, extraction, constructed>>

TaskCacheGetCall(task) ==
    LET key == CacheKey(task.retailer, task.query, task.category)
        cached == CacheRead(cache, key)
    IN  /\ cache' = CacheGetEffect(cache, key, cached, now, cache_ttl_seconds)
        /\ called' = [kind |-> "cache_get", arg |-> [task |-> task],
                      result |-> CacheGetResult(cached, now, cache_ttl_seconds),
                      after |-> IF called # NoOp /\ called.kind = "cache_set"
                                THEN called ELSE NoOp]
        /\ UNCHANGED <<config, now, invocation, cache_op, extraction, constructed>>

NextKeys ==
    \/ \E task \in KeyTasks, new_deals \in KeyDeals : TaskCacheSetCall(task, new_deals)
    \/ \E task \in KeyTasks : TaskCacheGetCall(task)

SpecTaskKeys == InitDefault /\ [][NextKeys]_vars

(***************************************************************************)
(* Properties.                                                             *)
(***************************************************************************)
\* the dedup key as the specification defines it
SpecKey(deal) == <<deal.retailer, Lower(deal.product_name)>>
SpecKeys(seq) == {SpecKey(seq[i]) : i \in DOMAIN seq}
Range(seq) == {seq[i] : i \in DOMAIN seq}

Absolute(x) == IF x < 0 THEN -x ELSE x

\* the tasks whose _scrape_with_cache returned (did not raise)
Completed == {i \in DOMAIN futures : futures[i].pc \in {"done", "merged"}}
Raising == {i \in DOMAIN futures : futures[i].pc = "failed"}

\* C1: when search_deals returns, its sequence holds exactly one deal for every
\* (retailer, lowercased product name) key found in the result of a task that
\* completed without raising, and no key twice.
C1_OneDealPerKey ==
    phase = "returned" =>
        /\ \A i, j \in DOMAIN self_deals :
               i # j => SpecKey(self_deals[i]) # SpecKey(self_deals[j])
        /\ SpecKeys(self_deals) =
               UNION {SpecKeys(futures[i].result) : i \in Completed}

\* C1 witness: a pool search returned although a task raised, two tasks brought
\* the same key and one task brought the same key twice.
C1_Witness ==
    /\ phase = "returned"
    /\ mode = "pool"
    /\ Raising # {}
    /\ \E i, j \in Completed :
           /\ i # j
           /\ SpecKeys(futures[i].result) \cap SpecKeys(futures[j].result) # {}
           /\ Len(futures[i].result) > Cardinality(SpecKeys(futures[i].result))
    /\ Len(self_deals) >= 2

\* C2 (as claimed): a task whose extractor raised contributes nothing and
\* search_deals still returns, in pool and in sequential execution alike.
C2_FaultIsolated ==
    \A i \in Raising : futures[i].result = <<>> /\ phase # "raised"

\* C3: a fetch failure never raises out of its task; the task yields the empty
\* list, search_deals is not left by an exception because of it, and every task
\* that returned has its keys in the returned sequence.
C3_FetchErrorContained ==
    /\ \A i \in DOMAIN futures :
           futures[i].outcome = "fetch_error" =>
               futures[i].pc \in {"done", "merged"} /\ futures[i].result = <<>>
    /\ ( /\ \E i \in DOMAIN futures : futures[i].outcome = "fetch_error"
         /\ \A i \in DOMAIN futures : futures[i].outcome # "fault" )
       => phase # "raised"
    /\ ( /\ phase = "returned"
         /\ \E i \in DOMAIN futures : futures[i].outcome = "fetch_error" )
       => \A j \in DOMAIN futures :
              futures[j].outcome \in {"ok", "hit", "fetch_error"} =>
                  /\ futures[j].pc = "merged"
                  /\ SpecKeys(futures[j].result) \subseteq SpecKeys(self_deals)

\* C3 witness: a sequential search returned after the first task's fetch failed
\* and a later task brought deals.
C3_Witness ==
    /\ phase = "returned"
    /\ mode = "sequential"
    /\ Len(futures) >= 2
    /\ futures[1].outcome = "fetch_error"
    /\ futures[2].outcome = "ok"
    /\ futures[2].result # <<>>
    /\ self_deals # <<>>

\* C4: set stores (now, deals) over any prior entry; get returns the stored deals
\* while now - fetchedAt <= ttl, the instant of equality included, and once
\* now - fetchedAt > ttl it returns absent and the key is gone from the cache.
C4_CacheContract ==
    /\ cache_op.kind = "set" =>
           /\ cache_op.key \in DOMAIN cache
           /\ cache[cache_op.key] = [timestamp |-> cache_op.at, deals |-> cache_op.deals]
    /\ cache_op.kind = "get" =>
           IF cache_op.before = NoValue
           THEN cache_op.result = NoValue /\ cache_op.key \notin DOMAIN cache
           ELSE IF cache_op.at - cache_op.before[1].timestamp <= cache_ttl_seconds
           THEN /\ cache_op.result = Some(cache_op.before[1].deals)
                /\ cache_op.key \in DOMAIN cache
                /\ cache[cache_op.key] = cache_op.before[1]
           ELSE cache_op.result = NoValue /\ cache_op.key \notin DOMAIN cache

\* C4 witness: a get at the instant now - fetchedAt = ttl (ttl > 0) returned the deals.
C4_Witness ==
    /\ cache_op.kind = "get"
    /\ cache_op.before # NoValue
    /\ cache_ttl_seconds > 0
    /\ cache_op.at - cache_op.before[1].timestamp = cache_ttl_seconds
    /\ cache_op.result # NoValue
    /\ cache_op.result[1] # <<>>

\* the results of the tasks that returned, in task order
RECURSIVE ResultsInTaskOrder(_)
ResultsInTaskOrder(i) ==
    IF i > Len(futures) THEN <<>>
    ELSE (IF i \in Completed THEN futures[i].result ELSE <<>>) \o ResultsInTaskOrder(i + 1)

\* what the merge gives when the tasks arrive in task order
TaskOrderDeals == MergeDeals(ResultsInTaskOrder(1), <<>>, {}).deals

\* C5 (as claimed): the set of deals returned is the same for every arrival
\* order, so it is the set the task order gives.
C5_SameDealsAnyOrder ==
    phase = "returned" => Range(self_deals) = Range(TaskOrderDeals)

\* C5 (amended): the set of (retailer, lowercased name) keys returned is the same
\* for every arrival order, with one deal per key, each taken from a task result;
\* which deal stands for a key depends on the arrival order.
C5_SameKeysAnyOrder ==
    phase = "returned" =>
        /\ SpecKeys(self_deals) = SpecKeys(TaskOrderDeals)
        /\ Len(self_deals) = Len(TaskOrderDeals)
        /\ \A d \in Range(self_deals) : \E i \in Completed : d \in Range(futures[i].result)

\* C5 witness: a pool search returned deals that differ from those of the task order.
C5_Witness ==
    /\ phase = "returned"
    /\ mode = "pool"
    /\ Range(self_deals) # Range(TaskOrderDeals)

\* the invocation of the end-to-end test: categories CPU and GPU, every task
\* scraped one deal
OneDealPerTask ==
    /\ phase = "returned"
    /\ Len(tasks) = 2 * Len(Retailers)
    /\ {tasks[i].category : i \in DOMAIN tasks} = {"CPU", "GPU"}
    /\ \A i \in DOMAIN futures : futures[i].outcome = "ok" /\ Len(futures[i].result) = 1

\* each retailer returns one fixed deal, whatever the task
FixedDealPerRetailer ==
    \A i, j \in DOMAIN futures :
        tasks[i].retailer = tasks[j].retailer =>
            /\ futures[i].result[1].product_name = futures[j].result[1].product_name
            /\ futures[i].result[1].sale_price = futures[j].result[1].sale_price

\* each retailer's deal has another product name in each of its tasks
DistinctNamePerTask ==
    \A i, j \in DOMAIN futures :
        (i # j /\ tasks[i].retailer = tasks[j].retailer) =>
            SpecKey(futures[i].result[1]) # SpecKey(futures[j].result[1])

\* C6 (as claimed): with categories {CPU, GPU} and two retailers each returning
\* one fixed deal for every task, search_deals returns 4 deals.
C6_FourDeals ==
    (OneDealPerTask /\ FixedDealPerRetailer) => Len(self_deals) = 4

\* C6 (amended): search_deals returns one deal per (retailer, lowercased name)
\* key of the four task results: 4 deals when each retailer's deal is named
\* differently in its two tasks, 2 when each retailer returns one fixed deal.
C6_OneDealPerDistinctKey ==
    OneDealPerTask =>
        /\ Len(self_deals) =
               Cardinality({SpecKey(futures[i].result[1]) : i \in DOMAIN futures})
        /\ DistinctNamePerTask => Len(self_deals) = 4
        /\ FixedDealPerRetailer => Len(self_deals) = 2

\* C6 witness: four tasks, four differently keyed deals, four deals returned.
C6_Witness ==
    /\ OneDealPerTask
    /\ DistinctNamePerTask
    /\ Len(self_deals) = 4
    /\ Cardinality(Range(self_deals)) = 4

\* C7: in the worker pool the number of tasks executing at once never exceeds
\* min(max_workers, number of tasks).
C7_PoolBounded ==
    mode = "pool" => Cardinality(Running) <= Min(max_workers, Len(tasks))

\* C7 witness: the pool is full (max_workers tasks execute) while a task waits.
C7_Witness ==
    /\ mode = "pool"
    /\ max_workers < Len(tasks)
    /\ max_workers >= 2
    /\ Cardinality(Running) = max_workers
    /\ \E i \in DOMAIN futures : futures[i].pc = "queued"

\* C8 (as claimed): the pool runs the tasks only with more than one task and a
\* worker limit above 1; otherwise they run sequentially, with the request delay
\* slept after each task.
C8_ModeRule ==
    /\ mode = "pool" => (Len(tasks) > 1 /\ max_workers > 1)
    /\ (phase \in {"running", "returned"} /\ ~(Len(tasks) > 1 /\ max_workers > 1))
       => mode = "sequential"
    /\ (phase = "returned" /\ mode = "sequential" /\ request_delay # 0)
       => sleeps = Len(tasks)

\* C9 (as claimed): for every page and every limit, zero and negative included,
\* an extractor returns at most limit deals (none for a limit below 1) and scans
\* no block past the one that brought the limit-th deal.
C9_AtMostLimit ==
    extraction.kind = "extract" =>
        /\ Len(extraction.deals) <= (IF extraction.limit < 0 THEN 0 ELSE extraction.limit)
        /\ (extraction.deals # <<>> /\ Len(extraction.deals) >= extraction.limit) =>
               /\ extraction.scanned \in DOMAIN extraction.items
               /\ extraction.items[extraction.scanned].title # NoValue
               /\ extraction.items[extraction.scanned].price # NoValue

\* C10: a constructed Deal's discount is ((original - sale) / original) * 100
\* rounded to two decimals (nearest hundredth, a tie to the even one) when
\* original > 0, and 0 when original <= 0.
C10_DiscountRounded ==
    constructed.kind = "deal" =>
        LET o == constructed.original_price
            sl == constructed.sale_price
            d == constructed.deal.discount_percentage
            err == Absolute(d * o - (o - sl) * 10000)
        IN  IF o > 0
            THEN /\ 2 * err <= o
                 /\ 2 * err = o => d % 2 = 0
            ELSE d = 0

\* C10 witness: a discounted deal whose percentage lies exactly between two
\* hundredths (original 0.32, sale 0.31: 3.125).
C10_Witness ==
    /\ constructed.kind = "deal"
    /\ constructed.original_price > 0
    /\ constructed.sale_price < constructed.original_price
    /\ 2 * Absolute(constructed.deal.discount_percentage * constructed.original_price
                    - (constructed.original_price - constructed.sale_price) * 10000)
       = constructed.original_price

\* the k-th smallest of a set of indices
KthIndex(indices, k) ==
    CHOOSE i \in indices : Cardinality({j \in indices : j < i}) = k - 1

\* result holds exactly the elements of seq at the given indices, in seq's order
IsSelection(result, seq, indices) ==
    /\ Len(result) = Cardinality(indices)
    /\ \A k \in 1..Len(result) : result[k] = seq[KthIndex(indices, k)]

\* C11: on the most recent result set, the min-discount filter returns exactly the
\* deals with discount >= d, the max-price filter exactly those with sale price <= p,
\* the category filter exactly those of category c, each in the result set's order.
C11_FiltersExact ==
    /\ called.kind = "filter_deals_by_min_discount" =>
           IsSelection(called.result, self_deals,
                       {i \in DOMAIN self_deals :
                           self_deals[i].discount_percentage >= called.arg})
    /\ called.kind = "filter_deals_by_max_price" =>
           IsSelection(called.result, self_deals,
                       {i \in DOMAIN self_deals : self_deals[i].sale_price <= called.arg})
    /\ called.kind = "filter_deals_by_category" =>
           IsSelection(called.result, self_deals,
                       {i \in DOMAIN self_deals : self_deals[i].category = called.arg})

\* C11 witness: the min-discount filter, called with the discount of one of three
\* deals, kept that deal and a later one and dropped another.
C11_Witness ==
    /\ called.kind = "filter_deals_by_min_discount"
    /\ Len(self_deals) = 3
    /\ Len(called.result) = 2
    /\ \E i \in DOMAIN self_deals :
           /\ self_deals[i].discount_percentage = called.arg
           /\ called.result[1] = self_deals[i]
           /\ called.arg > 0

IsPermutation(a, b) ==
    /\ Len(a) = Len(b)
    /\ \A d \in Range(a) \cup Range(b) :
           Cardinality({i \in DOMAIN a : a[i] = d}) =
           Cardinality({i \in DOMAIN b : b[i] = d})

\* C12: by default sort_deals_by_price returns a permutation of the result set in
\* non-decreasing sale price order and sort_deals_by_discount a permutation of it
\* in non-increasing discount order; no deal is added or dropped.
C12_SortsPermute ==
    /\ called.kind \in {"sort_deals_by_price", "sort_deals_by_discount"} =>
           IsPermutation(called.result, self_deals)
    /\ (called.kind = "sort_deals_by_price" /\ called.arg = NoValue) =>
           \A i, j \in DOMAIN called.result :
               i < j => called.result[i].sale_price <= called.result[j].sale_price
    /\ (called.kind = "sort_deals_by_discount" /\ called.arg = NoValue) =>
           \A i, j \in DOMAIN called.result :
               i < j => called.result[i].discount_percentage >=
                        called.result[j].discount_percentage

\* C12 witness: the default discount sort moved the last of three deals to the front.
C12_Witness ==
    /\ called.kind = "sort_deals_by_discount"
    /\ called.arg = NoValue
    /\ Len(self_deals) = 3
    /\ called.result[1] = self_deals[3]
    /\ called.result[1].discount_percentage > called.result[2].discount_percentage

\* phrase occurs in text when case is ignored
OccursIgnoringCase(phrase, text) ==
    \E i \in 1..(Len(text) - Len(phrase) + 1) :
        \A k \in 1..Len(phrase) : LowerChar(text[i + k - 1]) = LowerChar(phrase[k])

\* t is text without its leading and trailing whitespace
IsTrimOf(t, text) ==
    \E i \in 1..(Len(text) + 1), j \in 0..Len(text) :
        /\ t = SubSeq(text, i, j)
        /\ \A k \in (1..(i - 1)) \cup ((j + 1)..Len(text)) : IsSpace(text[k])
        /\ t # <<>> => ~IsSpace(t[1]) /\ ~IsSpace(t[Len(t)])

\* C13: the query built for a category is never empty; it is the category's
\* default phrase when the term is absent or only whitespace, the trimmed term
\* verbatim when the phrase occurs in it ignoring case, and otherwise the trimmed
\* term, a space and the phrase.
C13_QueryBuilt ==
    called.kind = "build_query" =>
        LET term == called.arg.search_term
            phrase == CATEGORY_SEARCH_TERMS(called.arg.category)
            query == called.result
        IN  /\ query # <<>>
            /\ IF term = NoValue \/ \A k \in DOMAIN term[1] : IsSpace(term[1][k])
               THEN query = phrase
               ELSE \E i \in DOMAIN term[1], j \in DOMAIN term[1] :
                        LET t == SubSeq(term[1], i, j)
                        IN  /\ IsTrimOf(t, term[1])
                            /\ IF OccursIgnoringCase(phrase, term[1])
                               THEN query = t
                               ELSE query = t \o <<" ">> \o phrase

\* C13 witness: a term with whitespace around it that holds the phrase in another
\* case gave the trimmed term, the phrase not appended.
C13_Witness ==
    /\ called.kind = "build_query"
    /\ called.arg.search_term # NoValue
    /\ called.result # called.arg.search_term[1]
    /\ Len(called.result) > Len(CATEGORY_SEARCH_TERMS(called.arg.category))
    /\ IsTrimOf(called.result, called.arg.search_term[1])
    /\ ~Contains(called.result, CATEGORY_SEARCH_TERMS(called.arg.category))

\* s is digits, then groups of a comma and three digits, then optionally a dot
\* and two digits
IsPriceForm(s) ==
    \E n \in 1..Len(s), g \in 0..Len(s), f \in {0, 1} :
        /\ Len(s) = n + 4 * g + 3 * f
        /\ \A k \in 1..n : IsDigit(s[k])
        /\ \A q \in 0..(g - 1) :
               /\ s[n + 4 * q + 1] = ","
               /\ \A k \in 2..4 : IsDigit(s[n + 4 * q + k])
        /\ f = 1 => /\ s[n + 4 * g + 1] = "."
                    /\ IsDigit(s[n + 4 * g + 2])
                    /\ IsDigit(s[n + 4 * g + 3])

RECURSIVE Decimal(_)
Decimal(ds) ==
    IF ds = <<>> THEN 0
    ELSE Decimal(SubSeq(ds, 1, Len(ds) - 1)) * 10 + DigitVal(ds[Len(ds)])

\* the value, in cents, of a text of price form once its commas are removed
CentsOf(s) ==
    LET plain == SelectSeq(s, LAMBDA c : c # ",")
    IN  IF \E k \in DOMAIN plain : plain[k] = "."
        THEN Decimal(SubSeq(plain, 1, Len(plain) - 3)) * 100
             + Decimal(SubSeq(plain, Len(plain) - 1, Len(plain)))
        ELSE Decimal(plain) * 100

\* C14: the price parser returns absent for the empty text and for a text without
\* a digit; otherwise it returns the value, commas removed, of the first substring
\* of price form: the one that starts at the first digit and reaches furthest.
C14_ParsePrice ==
    called.kind = "parse_price" =>
        LET text == called.arg
            digits == {i \in DOMAIN text : IsDigit(text[i])}
        IN  IF digits = {}
            THEN called.result = NoValue
            ELSE \E i \in digits, j \in DOMAIN text :
                     /\ \A k \in digits : i <= k
                     /\ IsPriceForm(SubSeq(text, i, j))
                     /\ \A m \in DOMAIN text : m > j => ~IsPriceForm(SubSeq(text, i, m))
                     /\ called.result = Some(CentsOf(SubSeq(text, i, j)))

\* C14 witness: "$1,299.99" gave 1299.99.
C14_Witness ==
    /\ called.kind = "parse_price"
    /\ called.arg = <<"$","1",",","2","9","9",".","9","9">>
    /\ called.result = Some(129999)

\* C15: a task first reads the cache under its key; when the entry it read is
\* still valid it returns that entry's deals, without calling the scraper and
\* without writing the cache; otherwise it calls the scraper, once, and when the
\* scraper returns its result is in the cache under the task's key, stamped now,
\* as the task returns it.  No finished task checks or scrapes again.
C15_TaskSteps ==
    [][\A i \in DOMAIN futures :
           i \in DOMAIN futures' =>
               LET f == futures[i]
                   g == futures'[i]
                   valid == /\ f.cached # NoValue
                            /\ now - f.cached[1].timestamp <= cache_ttl_seconds
               IN  /\ (f.pc = "queued" /\ g.pc # "queued") =>
                          /\ g.pc = "check"
                          /\ g.cached = (IF f.key \in DOMAIN cache
                                         THEN Some(cache[f.key]) ELSE NoValue)
                          /\ cache' = cache
                   /\ (f.pc = "check" /\ g.pc # "check") =>
                          IF valid
                          THEN /\ g.pc = "done"
                               /\ g.outcome = "hit"
                               /\ g.result = f.cached[1].deals
                               /\ cache' = cache
                          ELSE g.pc = "scrape" /\ g.outcome = "none"
                   /\ (f.pc = "scrape" /\ g.pc # "scrape") =>
                          /\ g.pc \in {"done", "failed"}
                          /\ g.outcome \in {"ok", "fetch_error", "fault"}
                          /\ g.pc = "done" =>
                                 /\ f.key \in DOMAIN cache'
                                 /\ cache'[f.key] = [timestamp |-> now, deals |-> g.result]
                   /\ f.pc \in {"done", "merged", "failed"} =>
                          /\ g.pc \in {"done", "merged", "failed"}
                          /\ g.result = f.result
                          /\ g.outcome = f.outcome]_vars

\* C15 witness: in one search a task returned the deals of a valid entry and
\* another task missed, scraped deals and stored them under its own key.
C15_Witness ==
    /\ phase = "returned"
    /\ \E i, j \in DOMAIN futures :
           /\ futures[i].outcome = "hit"
           /\ futures[i].result # <<>>
           /\ futures[j].outcome = "ok"
           /\ futures[j].result # <<>>
           /\ futures[j].key # futures[i].key
           /\ futures[j].key \in DOMAIN cache
           /\ cache[futures[j].key].deals = futures[j].result
           /\ cache[futures[i].key].deals = futures[i].result

\* a task can take its next step, or search_deals can return
CanProceed ==
    \/ \E i \in DOMAIN futures : futures[i].pc \in {"check", "scrape", "done"}
    \/ \E i \in DOMAIN futures :
           /\ futures[i].pc = "queued"
           /\ \A j \in 1..(i - 1) : futures[j].pc # "queued"
    \/ \A i \in DOMAIN futures : futures[i].pc \in {"merged", "failed"}

\* C16 (as claimed): a search_deals invocation (worker limit not negative) never
\* gets stuck, and once it has ended every one of its tasks has been executed,
\* once: none is left unstarted, none is still running or unmerged.
C16_EveryTaskExecutedOnce ==
    max_workers >= 0 =>
        /\ phase = "running" => CanProceed
        /\ phase \in {"returned", "raised"} =>
               \A i \in DOMAIN futures : futures[i].pc \in {"merged", "failed"}

\* the blocks of a page an extractor turns into a Deal (up to its limit): title
\* and price present, price parsable, and for Newegg not "see price in cart"
DealBlocks(retailer, items) ==
    {i \in DOMAIN items :
        /\ items[i].title # NoValue
        /\ items[i].price # NoValue
        /\ ParsePrice(Strip(items[i].price[1])) # NoValue
        /\ retailer = "Newegg" =>
               ~OccursIgnoringCase(SeePriceInCart, items[i].price[1])}

\* C17: for every listing block turned into a Deal, originalPrice is the parsed
\* previous price when that element is present, parsable and strictly greater
\* than the current price; in every other case originalPrice = salePrice and the
\* discount is 0.
C17_OriginalPrice ==
    extraction.kind = "extract" =>
        LET blocks == DealBlocks(extraction.retailer, extraction.items)
        IN  /\ Len(extraction.deals) <= Cardinality(blocks)
            /\ \A k \in DOMAIN extraction.deals :
                   LET b == extraction.items[KthIndex(blocks, k)]
                       deal == extraction.deals[k]
                       was == IF b.was = NoValue THEN NoValue
                              ELSE ParsePrice(Strip(b.was[1]))
                   IN  /\ deal.sale_price = ParsePrice(Strip(b.price[1]))[1]
                       /\ IF was # NoValue /\ was[1] > deal.sale_price
                          THEN deal.original_price = was[1]
                          ELSE /\ deal.original_price = deal.sale_price
                               /\ deal.discount_percentage = 0

\* C17 witness: a page whose first block has a lower previous price and whose
\* second has a higher one gave a deal without and a deal with a discount.
C17_Witness ==
    /\ extraction.kind = "extract"
    /\ Len(extraction.items) = 2
    /\ Len(extraction.deals) = 2
    /\ extraction.items[1].was # NoValue
    /\ ParsePrice(extraction.items[1].was[1]) # NoValue
    /\ extraction.deals[1].original_price = extraction.deals[1].sale_price
    /\ extraction.deals[2].original_price > extraction.deals[2].sale_price
    /\ extraction.deals[2].discount_percentage > 0

\* C18: in sequential execution the tasks are, for each category in the given
\* order, Best Buy then Newegg, and search_deals returns the task results
\* concatenated in that order, each task's deals in extraction order, less every
\* deal whose dedup key an earlier deal already has.
C18_SequentialOrder ==
    mode = "sequential" =>
        /\ Len(tasks) = 2 * Len(search_categories)
        /\ \A k \in DOMAIN search_categories :
               /\ tasks[2 * k - 1].retailer = "Best Buy"
               /\ tasks[2 * k].retailer = "Newegg"
               /\ tasks[2 * k - 1].category = search_categories[k]
               /\ tasks[2 * k].category = search_categories[k]
        /\ phase = "returned" =>
               LET all == ResultsInTaskOrder(1)
               IN  IsSelection(self_deals, all,
                               {i \in DOMAIN all :
                                   \A j \in 1..(i - 1) : SpecKey(all[j]) # SpecKey(all[i])})

\* C18 witness: a sequential search over two categories returned deals of both
\* retailers, Best Buy's first, with a later duplicate removed.
C18_Witness ==
    /\ mode = "sequential"
    /\ phase = "returned"
    /\ Len(search_categories) = 2
    /\ Len(self_deals) >= 2
    /\ Len(self_deals) < Len(ResultsInTaskOrder(1))
    /\ self_deals[1].retailer = "Best Buy"
    /\ self_deals[Len(self_deals)].retailer = "Newegg"
    /\ futures[1].result # <<>>

\* text from its first to its last character that is not whitespace
Trimmed(text) ==
    LET inked == {k \in DOMAIN text : ~IsSpace(text[k])}
    IN  IF inked = {} THEN <<>>
        ELSE SubSeq(text, CHOOSE k \in inked : \A m \in inked : k <= m,
                          CHOOSE k \in inked : \A m \in inked : k >= m)

\* two queries are equal once trimmed and lowercased
SameQuery(q1, q2) ==
    LET a == Trimmed(q1)
        b == Trimmed(q2)
    IN  /\ Len(a) = Len(b)
        /\ \A k \in DOMAIN a : LowerChar(a[k]) = LowerChar(b[k])

EquivalentTasks(t1, t2) ==
    /\ t1.retailer = t2.retailer
    /\ t1.category = t2.category
    /\ SameQuery(t1.query, t2.query)

\* C19: two tasks have the same cache key exactly when retailer and category are
\* the same and the queries are equal once trimmed and lowercased; a get right
\* after a set returns the set's deals when the two tasks are equivalent, and
\* when the set's entry is the only one a get for any other task, so for another
\* retailer or category, returns nothing.
C19_SharedEntry ==
    /\ \A t1, t2 \in KeyTasks :
           CacheKey(t1.retailer, t1.query, t1.category) =
               CacheKey(t2.retailer, t2.query, t2.category)
           <=> EquivalentTasks(t1, t2)
    /\ (called.kind = "cache_get" /\ called.after # NoOp) =>
           LET stored == called.after.arg
               task == called.arg.task
           IN  /\ EquivalentTasks(stored.task, task) =>
                      called.result = Some(stored.deals)
               /\ Cardinality(DOMAIN cache) = 1 =>
                      (called.result # NoValue <=> EquivalentTasks(stored.task, task))
               /\ ( /\ Cardinality(DOMAIN cache) = 1
                    /\ \/ stored.task.retailer # task.retailer
                       \/ stored.task.category # task.category )
                  => called.result = NoValue

\* C19 witness: deals set under one spelling of a query were returned by a get
\* under another spelling (other case, other surrounding whitespace).
C19_Witness ==
    /\ called.kind = "cache_get"
    /\ called.after # NoOp
    /\ called.after.arg.task.query # called.arg.task.query
    /\ Lower(called.after.arg.task.query) # Lower(called.arg.task.query)
    /\ called.result = Some(called.after.arg.deals)
    /\ Cardinality(DOMAIN cache) = 1

\* C20 (as claimed): whatever the interleaving of the tasks' lookups and stores,
\* an entry leaves the cache only when it is expired.
C20_RemovesOnlyExpired ==
    [][\A key \in DOMAIN cache :
           key \notin DOMAIN cache' =>
               now - cache[key].timestamp > cache_ttl_seconds]_vars

\* the tasks whose scraper has been called
Scraped == {i \in DOMAIN futures : futures[i].outcome \in {"ok", "fetch_error", "fault"}}

\* C25: in an invocation whose category list repeats no category, the cache keys
\* of the tasks are pairwise distinct (also when the categories share one query),
\* and at no moment has a key been fetched by more than one task.
C25_DistinctKeys ==
    (\A k, m \in DOMAIN search_categories :
         k # m => search_categories[k] # search_categories[m])
    => /\ \A i, j \in DOMAIN futures : i # j => futures[i].key # futures[j].key
       /\ \A i, j \in Scraped \cup {t \in DOMAIN futures : futures[t].pc = "scrape"} :
              futures[i].key = futures[j].key => i = j

\* C25 witness: two categories that share one query, four tasks, every one fetched.
C25_Witness ==
    /\ phase = "returned"
    /\ Len(search_categories) = 2
    /\ search_categories[1] # search_categories[2]
    /\ \A i, j \in DOMAIN tasks : tasks[i].query = tasks[j].query
    /\ Scraped = DOMAIN futures
    /\ Cardinality(DOMAIN cache) = 4

\* C23: the stored result set changes only when a search_deals call returns, and
\* then it holds only deals of that invocation's task results, one per dedup key
\* found, whatever it held before; a call that raises leaves it as it was.
C23_ResultSetReplaced ==
    [][/\ self_deals' # self_deals => (phase = "running" /\ phase' = "returned")
       /\ (phase = "running" /\ phase' = "returned") =>
              /\ \A d \in Range(self_deals') :
                     \E i \in Completed : d \in Range(futures[i].result)
              /\ SpecKeys(self_deals') =
                     UNION {SpecKeys(futures[i].result) : i \in Completed}
              /\ Len(self_deals') = Cardinality(SpecKeys(self_deals'))
       /\ phase' = "raised" => self_deals' = self_deals]_vars

\* C23 witness: a search returned deals, and the deal of the previous search is
\* no longer in the result set.
C23_Witness ==
    /\ phase = "returned"
    /\ self_deals # <<>>
    /\ \A d \in Range(StoredDeals) : d \notin Range(self_deals)
    /\ \A d \in Range(StoredDeals) : SpecKey(d) \notin SpecKeys(self_deals)

\* C24: every Deal an extractor produces has originalPrice >= salePrice >= 0 and
\* a discount between 0 and 100 percent.
C24_PricesOrdered ==
    extraction.kind = "extract" =>
        \A k \in DOMAIN extraction.deals :
            LET deal == extraction.deals[k]
            IN  /\ deal.sale_price >= 0
                /\ deal.original_price >= deal.sale_price
                /\ deal.discount_percentage >= 0
                /\ deal.discount_percentage <= 100 * 100

\* C24 witness: a page with a free item that had a price before and an item whose
\* previous price is lower than its price gave a deal at 100 percent and a deal
\* at 0 percent.
C24_Witness ==
    /\ extraction.kind = "extract"
    /\ Len(extraction.items) = 2
    /\ Len(extraction.deals) = 2
    /\ extraction.deals[1].sale_price = 0
    /\ extraction.deals[1].discount_percentage = 100 * 100
    /\ extraction.items[2].was # NoValue
    /\ ParsePrice(extraction.items[2].was[1]) # NoValue
    /\ ParsePrice(extraction.items[2].was[1])[1] < extraction.deals[2].sale_price
    /\ extraction.deals[2].discount_percentage = 0

\* C22: a cache hit leaves the entry's fetchedAt timestamp as it was, so a served
\* deal list was stored at most ttl before the lookup that served it: every get
\* that returns deals leaves the cache unchanged and returns the deals of an
\* entry not older than ttl, an entry older than ttl is never served however
\* often it was hit before, and only a set of a key gives its entry a new
\* timestamp, the time of that set.
C22_HitsKeepTimestamp ==
    [][/\ (now' = now /\ cache_op'.kind = "get") =>
              LET key == cache_op'.key
                  cached == CacheRead(cache, key)
              IN  /\ cache_op'.result # NoValue =>
                         /\ cached # NoValue
                         /\ cache' = cache
                         /\ cache'[key].timestamp = cached[1].timestamp
                         /\ cache_op'.result = Some(cached[1].deals)
                         /\ now - cached[1].timestamp <= cache_ttl_seconds
                  /\ (cached # NoValue /\ now - cached[1].timestamp > cache_ttl_seconds) =>
                         cache_op'.result = NoValue
       /\ \A key \in DOMAIN cache' :
              (key \notin DOMAIN cache \/ cache'[key].timestamp # cache[key].timestamp) =>
                  /\ cache_op'.kind = "set"
                  /\ cache_op'.key = key
                  /\ cache'[key].timestamp = now]_vars

\* C22 witness: an entry stored at an earlier time was served by a get and still
\* carries the timestamp of its set, which is before the time of the get.
C22_Witness ==
    /\ cache_op.kind = "get"
    /\ cache_op.result # NoValue
    /\ cache_op.before # NoValue
    /\ cache_op.before[1].timestamp < cache_op.at
    /\ cache_op.key \in DOMAIN cache
    /\ cache[cache_op.key].timestamp = cache_op.before[1].timestamp
    /\ cache[cache_op.key].timestamp < now

====
